---- MODULE Spec2Model ----
(***************************************************************************)
(* Model of the inventory management system's data layer:                  *)
(*   - the category hierarchy (src/src/models/category.py) with the        *)
(*     entity base fields it relies on (src/src/models/base.py);           *)
(*   - the migration runner, the scoped session and the health check of    *)
(*     the database manager (src/src/database/connection.py);              *)
(*   - the connection settings (src/config/database.py);                   *)
(*   - the mapping conversions of the entities (src/src/models/base.py);   *)
(*   - the supplier's inventory figures (src/src/models/supplier.py).      *)
(***************************************************************************)
EXTENDS Integers, Sequences, FiniteSets, TLC

\* ---------------------------------------------------------------- bounds
NumCats == 3
NumFiles == 3
MaxRuns == 2
MaxUses == 2
NumKeys == 2
MaxProducts == 2
MaxRecords == 2

\* ------------------------------------------------------------- constants
\* Python's None, for object references, ids and unset column values.
NULL == 0

Cats == 1..NumCats

\* Category.name of each category object (unique, category.py:31-33).
NameTable ==
  <<"Electronics", "Laptops", "Gaming Laptops", "Phones", "Tablets", "Audio">>

Name(c) == NameTable[c]

\* The value uuid.uuid4 gives a row: distinct per row, never None and never
\* an object reference.
Uuid(c) == 0 - c

VARIABLES
  parent,     \* Category.parent: the parent object of each category, or NULL
  parent_id,  \* Category.parent_id: the stored key of the parent, or NULL
  children,   \* Category.children: the ordered collection of child objects
  is_active,  \* ActiveRecordMixin.is_active: "True", "False" or "None"
  persisted,  \* whether the row was inserted, i.e. its id default was applied
  last,       \* the last call made on the model and what it returned
  dir,        \* the *.sql files of the migrations directory
  autobegin,  \* whether a connection opens a transaction on its first execute
  store,      \* the migration files whose changes are committed in the store
  ledger,     \* the versions committed in schema_migrations
  run,        \* per runner: the position and locals of its run_migrations
  orm,        \* the unit of work's view of the categories and their rows
  sess,       \* the position and locals of a get_session block
  db,         \* what sessions have committed: <<use, key>> pairs
  health,     \* the database seen by, and the run of, the health check
  cfg,        \* a DatabaseConfig and the engine made from it
  ent,        \* an entity, a mapping and the result of a conversion
  sup         \* a supplier's products with their inventory records

catVars == <<parent, parent_id, children, is_active, persisted, orm>>
migVars == <<dir, autobegin, store, ledger, run>>
auxVars == <<sess, db, health, cfg, ent, sup>>
vars == <<parent, parent_id, children, is_active, persisted, last,
          dir, autobegin, store, ledger, run, orm, sess, db, health, cfg,
          ent, sup>>

NoCall == [op |-> "none"]

\* --------------------------------------------------------------- BaseModel
\* BaseModel.id: the column default uuid4 is applied when the row is
\* inserted; an object that was constructed and not yet flushed has id None.
Id(c) == IF persisted[c] THEN Uuid(c) ELSE NULL

\* Truth value of an is_active attribute in "if child.is_active": the
\* column default True is applied on insert, before that the attribute of a
\* newly constructed object is None, which is falsy.
Truthy(v) == v = "True"

\* ---------------------------------------------------------------- Category
\* The "while current:" walks of full_path, level and get_all_ancestors
\* follow parent until None.  On a cyclic graph the loops would never end;
\* here a walk stops after NumCats + 1 links, more than any acyclic graph
\* of NumCats categories has.
RECURSIVE WalkUp(_, _)
WalkUp(current, fuel) ==
  IF current = NULL \/ fuel = 0
    THEN << >>
    ELSE <<current>> \o WalkUp(parent[current], fuel - 1)

\* Category.get_all_ancestors: parent, grandparent, ... nearest first.
get_all_ancestors(c) == WalkUp(parent[c], NumCats + 1)

InSeq(x, s) == \E i \in 1..Len(s) : s[i] = x

\* Category.can_be_parent_of(self, potential_child)
\* (variants with the ancestor check left out, or cut to the direct parent)
can_be_parent_of_noancestors(self, potential_child) ==
  potential_child # self

can_be_parent_of_parentonly(self, potential_child) ==
  IF potential_child = self
    THEN FALSE
    ELSE potential_child # parent[self]

can_be_parent_of(self, potential_child) ==
  IF potential_child = self
    THEN FALSE
    ELSE ~InSeq(potential_child, get_all_ancestors(self))

Remove(s, x) == SelectSeq(s, LAMBDA y : y # x)

\* Effect of assigning self.parent = p on the children collections: the
\* relationships are linked by back_populates, so the object leaves the
\* collection of its old parent and is appended to that of the new one;
\* assigning the value it already has changes nothing.
ChildrenAfterSetParent(c, p) ==
  IF parent[c] = p
    THEN children
    ELSE [x \in Cats |->
            IF x = parent[c] THEN Remove(children[x], c)
            ELSE IF x = p THEN Append(children[x], c)
            ELSE children[x]]

MoveCall(c, p, r) == [op |-> "move_to_parent", self |-> c, arg |-> p, ret |-> r]

\* What the unit of work notes when "self.parent = p" is carried out on an
\* object of a session: the backref takes the object out of the children
\* collection of its old parent, which marks it as without parent for the
\* delete-orphan cascade of Category.children, and appends it to the
\* collection of the new parent, which marks it as having one.  Objects
\* outside a session have no flush that reads the mark.
OrmAfterSetParent(c, p) ==
  IF ~orm.attached THEN orm
  ELSE [orm EXCEPT !.orphaned[c] =
          IF p # NULL THEN FALSE ELSE (@ \/ parent[c] # NULL)]

\* (variant that assigns parent_id before asking can_be_parent_of)
MoveToParent_assignfirst(c, p) ==
  /\ IF p = NULL
       THEN /\ parent_id' = [parent_id EXCEPT ![c] = NULL]
            /\ parent' = [parent EXCEPT ![c] = NULL]
            /\ children' = ChildrenAfterSetParent(c, NULL)
            /\ orm' = OrmAfterSetParent(c, NULL)
            /\ last' = MoveCall(c, p, TRUE)
       ELSE /\ parent_id' = [parent_id EXCEPT ![c] = Id(p)]
            /\ IF can_be_parent_of(p, c)
                 THEN /\ parent' = [parent EXCEPT ![c] = p]
                      /\ children' = ChildrenAfterSetParent(c, p)
                      /\ orm' = OrmAfterSetParent(c, p)
                      /\ last' = MoveCall(c, p, TRUE)
                 ELSE /\ UNCHANGED <<parent, children, orm>>
                      /\ last' = MoveCall(c, p, FALSE)
  /\ UNCHANGED <<is_active, persisted, migVars, auxVars>>

\* (variant whose detach clears parent_id only and keeps the parent object)
MoveToParent_keepref(c, p) ==
  /\ IF p = NULL
       THEN /\ parent_id' = [parent_id EXCEPT ![c] = NULL]
            /\ UNCHANGED <<parent, children, orm>>
            /\ last' = MoveCall(c, p, TRUE)
       ELSE IF can_be_parent_of(p, c)
         THEN /\ parent_id' = [parent_id EXCEPT ![c] = Id(p)]
              /\ parent' = [parent EXCEPT ![c] = p]
              /\ children' = ChildrenAfterSetParent(c, p)
              /\ orm' = OrmAfterSetParent(c, p)
              /\ last' = MoveCall(c, p, TRUE)
         ELSE /\ UNCHANGED <<parent_id, parent, children, orm>>
              /\ last' = MoveCall(c, p, FALSE)
  /\ UNCHANGED <<is_active, persisted, migVars, auxVars>>

\* Category.move_to_parent(self, new_parent)
MoveToParent(c, p) ==
  /\ IF p = NULL
       THEN /\ parent_id' = [parent_id EXCEPT ![c] = NULL]
            /\ parent' = [parent EXCEPT ![c] = NULL]
            /\ children' = ChildrenAfterSetParent(c, NULL)
            /\ orm' = OrmAfterSetParent(c, NULL)
            /\ last' = MoveCall(c, p, TRUE)
       ELSE IF can_be_parent_of(p, c)
         THEN /\ parent_id' = [parent_id EXCEPT ![c] = Id(p)]
              /\ parent' = [parent EXCEPT ![c] = p]
              /\ children' = ChildrenAfterSetParent(c, p)
              /\ orm' = OrmAfterSetParent(c, p)
              /\ last' = MoveCall(c, p, TRUE)
         ELSE /\ UNCHANGED <<parent_id, parent, children, orm>>
              /\ last' = MoveCall(c, p, FALSE)
  /\ UNCHANGED <<is_active, persisted, migVars, auxVars>>

\* A call of new_parent.can_be_parent_of(potential_child) on its own.
CanBeParentOf(s, x) ==
  /\ last' = [op |-> "can_be_parent_of", self |-> s, arg |-> x,
              ret |-> can_be_parent_of(s, x)]
  /\ UNCHANGED <<catVars, migVars, auxVars>>

\* ActiveRecordMixin.activate / deactivate
Activate(c) ==
  /\ is_active' = [is_active EXCEPT ![c] = "True"]
  /\ last' = [op |-> "activate", self |-> c]
  /\ UNCHANGED <<parent, parent_id, children, persisted, orm, migVars,
                 auxVars>>

Deactivate(c) ==
  /\ is_active' = [is_active EXCEPT ![c] = "False"]
  /\ last' = [op |-> "deactivate", self |-> c]
  /\ UNCHANGED <<parent, parent_id, children, persisted, orm, migVars,
                 auxVars>>

Reverse(s) == [i \in 1..Len(s) |-> s[Len(s) + 1 - i]]

\* str.join: the parts with the separator between consecutive parts.
RECURSIVE Join(_, _)
Join(sep, parts) ==
  IF parts = << >> THEN ""
  ELSE IF Len(parts) = 1 THEN Head(parts)
  ELSE Head(parts) \o sep \o Join(sep, Tail(parts))

\* (variant that joins the names as collected, without reversed())
full_path_unreversed(c) ==
  LET path_parts == [i \in 1..Len(WalkUp(c, NumCats + 1)) |->
                       Name(WalkUp(c, NumCats + 1)[i])]
  IN  Join(" > ", path_parts)

\* Category.full_path: names from self up to the root, reversed and joined.
full_path(c) ==
  LET path_parts == [i \in 1..Len(WalkUp(c, NumCats + 1)) |->
                       Name(WalkUp(c, NumCats + 1)[i])]
  IN  Join(" > ", Reverse(path_parts))

\* Category.level: the number of parent links above self.
level(c) == Len(WalkUp(parent[c], NumCats + 1))

\* Category.is_root
is_root(c) == parent_id[c] = NULL

\* (variant that leaves out an inactive child but still descends into it)
RECURSIVE DescendantsOver_descend(_)
DescendantsOver_descend(kids) ==
  IF kids = << >> THEN << >>
  ELSE LET child == Head(kids)
       IN  (IF Truthy(is_active[child]) THEN <<child>> ELSE << >>)
           \o DescendantsOver_descend(children[child])
           \o DescendantsOver_descend(Tail(kids))

\* Category.get_all_descendants: for each child in collection order, if it
\* is active, the child and then its own descendants.
RECURSIVE DescendantsOver(_)
DescendantsOver(kids) ==
  IF kids = << >> THEN << >>
  ELSE LET child == Head(kids)
       IN  (IF Truthy(is_active[child])
              THEN <<child>> \o DescendantsOver(children[child])
              ELSE << >>)
           \o DescendantsOver(Tail(kids))

get_all_descendants(c) == DescendantsOver(children[c])

\* Calls of the read-only operations.
FullPath(c) ==
  /\ last' = [op |-> "full_path", self |-> c, ret |-> full_path(c)]
  /\ UNCHANGED <<catVars, migVars, auxVars>>

Level(c) ==
  /\ last' = [op |-> "level", self |-> c, ret |-> level(c)]
  /\ UNCHANGED <<catVars, migVars, auxVars>>

GetAllDescendants(c) ==
  /\ last' = [op |-> "get_all_descendants", self |-> c,
              ret |-> get_all_descendants(c)]
  /\ UNCHANGED <<catVars, migVars, auxVars>>

\* ------------------------------------------------------- migration runner
\* File names are sequences of character codes, so that sorted() and
\* Path.stem act on them as they do on strings.
SqlSuffix == <<46, 115, 113, 108>>          \* ".sql"

FileTable ==
  << <<49>> \o SqlSuffix,                    \* "1.sql"
     <<49, 45, 97>> \o SqlSuffix,            \* "1-a.sql"
     <<50>> \o SqlSuffix,                    \* "2.sql"
     <<49, 48>> \o SqlSuffix,                \* "10.sql"
     <<49, 95, 98>> \o SqlSuffix >>          \* "1_b.sql"

AllFiles == {FileTable[i] : i \in 1..NumFiles}

RunnerIds == {1, 2}

\* Comparison of two paths of one directory: code point by code point, a
\* proper prefix first.
RECURSIVE LexLess(_, _)
LexLess(s, t) ==
  IF t = << >> THEN FALSE
  ELSE IF s = << >> THEN TRUE
  ELSE IF Head(s) # Head(t) THEN Head(s) < Head(t)
  ELSE LexLess(Tail(s), Tail(t))

\* sorted(migrations_dir.glob("*.sql"))
RECURSIVE SortedFiles(_)
SortedFiles(S) ==
  IF S = {} THEN << >>
  ELSE LET m == CHOOSE x \in S : \A y \in S \ {x} : LexLess(x, y)
       IN  <<m>> \o SortedFiles(S \ {m})

\* Path.stem: the name without its last suffix; a name whose only dot is
\* the leading one has no suffix.
Stem(f) ==
  LET dots == {i \in 1..Len(f) : f[i] = 46}
      cut == IF dots = {} THEN 0
             ELSE CHOOSE i \in dots : \A j \in dots : j <= i
  IN  IF cut <= 1 THEN f ELSE SubSeq(f, 1, cut - 1)

\* (variant that looks the file name up in the ledger)
IsPending_byname(f, applied_migrations) == f \notin applied_migrations

\* "if migration_name not in applied_migrations" with
\* migration_name = migration_file.stem
IsPending(f, applied_migrations) == Stem(f) \notin applied_migrations

IdleRun ==
  [pc |-> "idle", files |-> << >>, txn |-> "none", applied |-> {}, i |-> 1,
   pendExec |-> {}, pendIns |-> {}, ret |-> "None", executed |-> << >>,
   ledger0 |-> {}, faulted |-> FALSE, prevRet |-> "None", runs |-> 1,
   raisedAt |-> "none", committed |-> << >>]

\* An exception reaches the outer handler of run_migrations: the connection
\* is closed on leaving the with block, which discards what it had not
\* committed, and the run returns False.  raisedAt keeps the step that
\* raised.
Raised(rr) ==
  [rr EXCEPT !.pc = "done", !.ret = "False", !.txn = "none",
             !.pendExec = {}, !.pendIns = {}, !.raisedAt = rr.pc]

\* The state of a connection after execute().  The SQLAlchemy version is
\* not fixed by the sources.  With autobegin (SQLAlchemy 2.x, which the
\* models' mapped_column needs) the first statement opens a transaction
\* that lasts until commit or rollback, and begin() on such a connection
\* raises InvalidRequestError.  autobegin = FALSE is a connection whose
\* statements outside begin() are committed one by one, on which begin()
\* always returns a transaction.
AfterExecute(txn) ==
  IF txn = "none" /\ autobegin THEN "auto" ELSE txn

\* run_migrations up to engine.connect(): the files are listed and sorted;
\* without files the run returns True; connecting may fail.
MigStart(r, ok) ==
  /\ run[r].pc = "idle"
  /\ LET files == SortedFiles(dir)
         rr == [run[r] EXCEPT !.files = files, !.ledger0 = ledger,
                              !.executed = << >>, !.faulted = FALSE,
                              !.ret = "None", !.i = 1, !.applied = {},
                              !.raisedAt = "none"]
     IN  run' = [run EXCEPT ![r] =
           IF files = << >> THEN [rr EXCEPT !.pc = "done", !.ret = "True"]
           ELSE IF ~ok THEN [Raised(rr) EXCEPT !.faulted = TRUE]
           ELSE [rr EXCEPT !.pc = "create_table"]]
  /\ UNCHANGED <<dir, autobegin, store, ledger, catVars, last, auxVars>>

\* CREATE TABLE IF NOT EXISTS schema_migrations, then connection.commit()
MigCreateLedger(r, ok) ==
  /\ run[r].pc = "create_table"
  /\ run' = [run EXCEPT ![r] =
       IF ~ok THEN [Raised(@) EXCEPT !.faulted = TRUE]
       ELSE [@ EXCEPT !.pc = "read_ledger", !.txn = "none"]]
  /\ UNCHANGED <<dir, autobegin, store, ledger, catVars, last, auxVars>>

\* SELECT version FROM schema_migrations: the versions committed so far
MigReadLedger(r, ok) ==
  /\ run[r].pc = "read_ledger"
  /\ run' = [run EXCEPT ![r] =
       IF ~ok THEN [Raised(@) EXCEPT !.faulted = TRUE]
       ELSE [@ EXCEPT !.pc = "loop", !.applied = ledger, !.i = 1,
                      !.txn = AfterExecute(@)]]
  /\ UNCHANGED <<dir, autobegin, store, ledger, catVars, last, auxVars>>

\* The head of "for migration_file in migration_files": a file already in
\* applied_migrations is passed over, another one is taken up; after the
\* last file the connection is closed and the run returns True.
MigLoop(r) ==
  /\ run[r].pc = "loop"
  /\ run' = [run EXCEPT ![r] =
       IF @.i > Len(@.files)
         THEN [@ EXCEPT !.pc = "done", !.ret = "True", !.txn = "none"]
       ELSE IF IsPending(@.files[@.i], @.applied)
         THEN [@ EXCEPT !.pc = "begin"]
       ELSE [@ EXCEPT !.i = @ + 1]]
  /\ UNCHANGED <<dir, autobegin, store, ledger, catVars, last, auxVars>>

\* The file is read and connection.begin() is called, before the inner try.
\* begin() raises InvalidRequestError on a connection that already holds a
\* transaction.
MigBegin(r, ok) ==
  /\ run[r].pc = "begin"
  /\ run' = [run EXCEPT ![r] =
       IF ~ok THEN [Raised(@) EXCEPT !.faulted = TRUE]
       ELSE IF @.txn # "none" THEN Raised(@)
       ELSE [@ EXCEPT !.pc = "execute", !.txn = "explicit"]]
  /\ UNCHANGED <<dir, autobegin, store, ledger, catVars, last, auxVars>>

\* (variant in which the statements of the file are committed as they run)
MigExecute_autocommit(r, ok) ==
  /\ run[r].pc = "execute"
  /\ LET f == run[r].files[run[r].i]
     IN  /\ run' = [run EXCEPT ![r] =
               IF ~ok THEN [Raised(@) EXCEPT !.faulted = TRUE]
               ELSE [@ EXCEPT !.pc = "insert",
                              !.executed = Append(@, f)]]
         /\ store' = IF ok THEN store \cup {f} ELSE store
  /\ UNCHANGED <<dir, autobegin, ledger, catVars, last, auxVars>>

\* (variant whose handler rolls back and goes on with the next file)
MigExecute_swallow(r, ok) ==
  /\ run[r].pc = "execute"
  /\ run' = [run EXCEPT ![r] =
       IF ~ok THEN [@ EXCEPT !.pc = "loop", !.i = @ + 1, !.txn = "none",
                             !.pendExec = {}, !.pendIns = {},
                             !.faulted = TRUE]
       ELSE [@ EXCEPT !.pc = "insert",
                      !.pendExec = @ \cup {run[r].files[run[r].i]},
                      !.executed = Append(@, run[r].files[run[r].i])]]
  /\ UNCHANGED <<dir, autobegin, store, ledger, catVars, last, auxVars>>

\* connection.execute(text(migration_sql)) inside the transaction; on an
\* error the handler rolls back and re-raises.
MigExecute(r, ok) ==
  /\ run[r].pc = "execute"
  /\ run' = [run EXCEPT ![r] =
       IF ~ok THEN [Raised(@) EXCEPT !.faulted = TRUE]
       ELSE [@ EXCEPT !.pc = "insert",
                      !.pendExec = @ \cup {run[r].files[run[r].i]},
                      !.executed = Append(@, run[r].files[run[r].i])]]
  /\ UNCHANGED <<dir, autobegin, store, ledger, catVars, last, auxVars>>

\* (variant for a schema_migrations table whose version is no key)
MigInsert_nokey(r, ok) ==
  /\ run[r].pc = "insert"
  /\ LET version == Stem(run[r].files[run[r].i])
     IN  run' = [run EXCEPT ![r] =
           IF ~ok THEN [Raised(@) EXCEPT !.faulted = TRUE]
           ELSE [@ EXCEPT !.pc = "commit", !.pendIns = @ \cup {version}]]
  /\ UNCHANGED <<dir, autobegin, store, ledger, catVars, last, auxVars>>

\* INSERT INTO schema_migrations (version): version is the primary key, a
\* version already in the table is refused, and while another connection
\* holds an uncommitted row with the same version the statement waits for
\* that transaction to end.
MigInsert(r, ok) ==
  /\ run[r].pc = "insert"
  /\ LET version == Stem(run[r].files[run[r].i])
     IN  /\ ok => \A o \in RunnerIds \ {r} : version \notin run[o].pendIns
         /\ run' = [run EXCEPT ![r] =
               IF ~ok THEN [Raised(@) EXCEPT !.faulted = TRUE]
               ELSE IF version \in ledger THEN Raised(@)
               ELSE [@ EXCEPT !.pc = "commit",
                              !.pendIns = @ \cup {version}]]
  /\ UNCHANGED <<dir, autobegin, store, ledger, catVars, last, auxVars>>

\* trans.commit(): the changes of the file and its ledger row become
\* visible together; if the commit fails, nothing of the two does.
MigCommit(r, ok) ==
  /\ run[r].pc = "commit"
  /\ IF ok
       THEN /\ store' = store \cup run[r].pendExec
            /\ ledger' = ledger \cup run[r].pendIns
            /\ run' = [run EXCEPT ![r] =
                 [@ EXCEPT !.pc = "loop", !.i = @ + 1, !.txn = "none",
                           !.pendExec = {}, !.pendIns = {},
                           !.committed = Append(@, run[r].files[run[r].i])]]
       ELSE /\ run' = [run EXCEPT ![r] = [Raised(@) EXCEPT !.faulted = TRUE]]
            /\ UNCHANGED <<store, ledger>>
  /\ UNCHANGED <<dir, autobegin, catVars, last, auxVars>>

\* run_migrations is called again after it returned.
MigAgain(r) ==
  /\ run[r].pc = "done"
  /\ run[r].runs < MaxRuns
  /\ run' = [run EXCEPT ![r] =
       [@ EXCEPT !.pc = "idle", !.prevRet = run[r].ret, !.runs = @ + 1]]
  /\ UNCHANGED <<dir, autobegin, store, ledger, catVars, last, auxVars>>

\* ------------------------------------------------- session.commit, rows
\* The categories a flush deletes: the objects marked as without parent,
\* which the delete-orphan cascade of Category.children deletes, and with
\* each of them, by the delete cascade of the same relationship, the
\* categories below it.
Doomed ==
  {x \in orm.rows :
     \E c \in orm.rows :
       /\ orm.orphaned[c]
       /\ (x = c \/ InSeq(c, get_all_ancestors(x)))}

\* The rows whose stored parent is set and whose object was detached by
\* move_to_parent(None), with the rows below them.
Detached == {c \in orm.rows : orm.row_parent[c] # NULL /\ parent[c] = NULL}

Subtree(S) ==
  {x \in orm.rows : \E c \in S : x = c \/ InSeq(c, get_all_ancestors(x))}

\* session.commit() on the session the categories belong to: the flush
\* deletes the doomed categories and, by the cascade of Category.products,
\* their products, and writes the parent of every other category to its
\* row.
OrmCommit ==
  /\ orm.attached
  /\ orm' = [orm EXCEPT
       !.rows = @ \ Doomed,
       !.product_rows = @ \ Doomed,
       !.row_parent = [c \in Cats |->
          IF c \in Doomed \/ parent[c] = NULL THEN NULL
                                               ELSE Id(parent[c])],
       !.orphaned = [c \in Cats |-> FALSE]]
  /\ parent_id' = [c \in Cats |->
       IF c \in orm.rows \ Doomed /\ parent[c] # NULL THEN Id(parent[c])
                                                       ELSE parent_id[c]]
  /\ last' = [op |-> "commit", detached |-> Detached,
              subtree |-> Subtree(Detached),
              products |-> orm.product_rows \cap Subtree(Detached)]
  /\ UNCHANGED <<parent, children, is_active, persisted, migVars, auxVars>>

\* ------------------------------------------------------------- get_session
\* The keys of the rows a body may write through its session.
SessKeys == 1..NumKeys

IdleSess ==
  [pc |-> "idle", uses |-> 1, opened |-> FALSE, pending |-> {},
   wrote |-> {}, body |-> "none", commit |-> "none", rollback |-> "none",
   calls |-> << >>, err |-> "none"]

\* session = self.session_factory(), before the try: making the session
\* factory creates the engine, which may raise; then no session exists and
\* the error leaves get_session at once.
SessEnter(ok) ==
  /\ sess.pc = "idle"
  /\ sess' = IF ok THEN [sess EXCEPT !.pc = "body", !.opened = TRUE]
                   ELSE [sess EXCEPT !.pc = "done", !.err = "factory"]
  /\ UNCHANGED <<db, catVars, migVars, last, health, cfg, ent, sup>>

\* The body of the with block changes a row through the session.
SessWrite(k) ==
  /\ sess.pc = "body"
  /\ sess' = [sess EXCEPT !.pending = @ \cup {k}, !.wrote = @ \cup {k}]
  /\ UNCHANGED <<db, catVars, migVars, last, health, cfg, ent, sup>>

\* (variant without the except clause: try / finally only)
SessBodyEnd_noexcept(out) ==
  /\ sess.pc = "body"
  /\ sess' = IF out = "ok" THEN [sess EXCEPT !.body = out, !.pc = "commit"]
             ELSE IF out = "error"
               THEN [sess EXCEPT !.body = out, !.pc = "close", !.err = "body"]
             ELSE [sess EXCEPT !.body = out, !.pc = "close", !.err = "exit"]
  /\ UNCHANGED <<db, catVars, migVars, last, health, cfg, ent, sup>>

\* The body ends at the yield: it returns ("ok"), it raises an Exception
\* ("error", taken by "except Exception"), or it is left by a BaseException
\* that is no Exception, such as KeyboardInterrupt ("exit", which only the
\* finally clause sees).
SessBodyEnd(out) ==
  /\ sess.pc = "body"
  /\ sess' = IF out = "ok" THEN [sess EXCEPT !.body = out, !.pc = "commit"]
             ELSE IF out = "error"
               THEN [sess EXCEPT !.body = out, !.pc = "rollback",
                                 !.err = "body"]
             ELSE [sess EXCEPT !.body = out, !.pc = "close", !.err = "exit"]
  /\ UNCHANGED <<db, catVars, migVars, last, health, cfg, ent, sup>>

\* session.commit() after the yield; when it raises, the except clause is
\* entered with the commit's error.
SessCommit(ok) ==
  /\ sess.pc = "commit"
  /\ IF ok
       THEN /\ db' = db \cup {<<sess.uses, k>> : k \in sess.pending}
            /\ sess' = [sess EXCEPT !.pc = "close", !.commit = "ok",
                                    !.pending = {},
                                    !.calls = Append(@, "commit")]
       ELSE /\ db' = db
            /\ sess' = [sess EXCEPT !.pc = "rollback", !.commit = "raised",
                                    !.err = "commit",
                                    !.calls = Append(@, "commit")]
  /\ UNCHANGED <<catVars, migVars, last, health, cfg, ent, sup>>

\* session.rollback() in the except clause, then "raise": the error that
\* entered the clause goes on, unless rollback() raises one of its own.
SessRollback(ok) ==
  /\ sess.pc = "rollback"
  /\ sess' = IF ok
       THEN [sess EXCEPT !.pc = "close", !.rollback = "ok", !.pending = {},
                         !.calls = Append(@, "rollback")]
       ELSE [sess EXCEPT !.pc = "close", !.rollback = "raised",
                         !.err = "rollback",
                         !.calls = Append(@, "rollback")]
  /\ UNCHANGED <<db, catVars, migVars, last, health, cfg, ent, sup>>

\* session.close() in the finally clause: what was not committed is gone.
SessClose ==
  /\ sess.pc = "close"
  /\ sess' = [sess EXCEPT !.pc = "done", !.pending = {},
                          !.calls = Append(@, "close")]
  /\ UNCHANGED <<db, catVars, migVars, last, health, cfg, ent, sup>>

\* get_session is entered again: a new session.
SessAgain ==
  /\ sess.pc = "done"
  /\ sess.uses < MaxUses
  /\ sess' = [IdleSess EXCEPT !.uses = sess.uses + 1]
  /\ UNCHANGED <<db, catVars, migVars, last, health, cfg, ent, sup>>

\* ------------------------------------------ test_connection, health check
\* The tables the health check asks information_schema for, and one more
\* table of schema public that it does not ask for.
ExpectedTables ==
  {"categories", "suppliers", "products", "inventory", "transactions"}

PublicTables == ExpectedTables \cup {"schema_migrations"}

\* What can fail inside test_connection: creating the engine (only while
\* there is none), engine.connect(), and executing SELECT 1.
TcFaults == {"none", "engine", "connect", "select1"}

\* (variant that reads self.engine before entering the try)
test_connection_enginefirst(fault) ==
  IF fault = "engine"
    THEN [ret |-> FALSE, raised |-> TRUE, engine |-> FALSE]
    ELSE [ret |-> fault = "none", raised |-> FALSE, engine |-> TRUE]

\* DatabaseManager.test_connection: the whole body is inside the try, any
\* Exception is logged and answered with False.
test_connection(fault) ==
  IF fault = "engine"
    THEN [ret |-> FALSE, raised |-> FALSE, engine |-> FALSE]
    ELSE [ret |-> fault = "none", raised |-> FALSE, engine |-> TRUE]

\* health_info as check_database_health initialises it.
NewHealthInfo(h) ==
  [h EXCEPT !.connection = FALSE, !.tables_exist = FALSE,
            !.sample_data = FALSE, !.status = "unknown", !.error = "None",
            !.fault = "none", !.raised = FALSE]

\* The except clause of check_database_health, then "return health_info".
HealthExcept(h, fault) ==
  [h EXCEPT !.pc = "done", !.status = "error", !.error = fault,
            !.fault = fault]

\* test_connection called by itself.
TestConnection(fault) ==
  /\ health.pc = "idle"
  /\ fault = "engine" => ~health.engine
  /\ LET r == test_connection(fault)
     IN  /\ last' = [op |-> "test_connection", fault |-> fault,
                      ret |-> r.ret, raised |-> r.raised]
         /\ health' = [health EXCEPT !.engine = @ \/ r.engine]
  /\ UNCHANGED <<catVars, migVars, sess, db, cfg, ent, sup>>

\* check_database_health up to and including its call of test_connection.
HealthTest(fault) ==
  /\ health.pc = "idle"
  /\ fault = "engine" => ~health.engine
  /\ LET r == test_connection(fault)
         h == [NewHealthInfo(health) EXCEPT !.engine = @ \/ r.engine,
                                            !.fault = fault]
     IN  health' = IF r.raised THEN HealthExcept(h, fault)
                   ELSE IF r.ret
                     THEN [h EXCEPT !.connection = TRUE, !.pc = "session"]
                   ELSE [h EXCEPT !.pc = "status"]
  /\ UNCHANGED <<last, catVars, migVars, sess, db, cfg, ent, sup>>

\* "with get_db_session() as session": the session factory makes a session.
HealthSession(ok) ==
  /\ health.pc = "session"
  /\ health' = IF ok THEN [health EXCEPT !.pc = "count"]
                     ELSE HealthExcept(health, "factory")
  /\ UNCHANGED <<last, catVars, migVars, sess, db, cfg, ent, sup>>

\* (variant with table_count > 5)
HealthCount_gt(ok) ==
  /\ health.pc = "count"
  /\ LET table_count == Cardinality(health.tables \cap ExpectedTables)
     IN  health' =
           IF ~ok THEN HealthExcept(health, "count")
           ELSE [health EXCEPT !.tables_exist = table_count > 5,
                               !.pc = IF table_count > 5 THEN "sample"
                                                          ELSE "exit"]
  /\ UNCHANGED <<last, catVars, migVars, sess, db, cfg, ent, sup>>

\* SELECT COUNT(*) FROM information_schema.tables WHERE table_schema =
\* 'public' AND table_name IN (the five names); tables_exist =
\* table_count >= 5.  A failing statement leaves the with block through
\* get_session's rollback, re-raise and close and reaches the except clause.
HealthCount(ok) ==
  /\ health.pc = "count"
  /\ LET table_count == Cardinality(health.tables \cap ExpectedTables)
     IN  health' =
           IF ~ok THEN HealthExcept(health, "count")
           ELSE [health EXCEPT !.tables_exist = table_count >= 5,
                               !.pc = IF table_count >= 5 THEN "sample"
                                                           ELSE "exit"]
  /\ UNCHANGED <<last, catVars, migVars, sess, db, cfg, ent, sup>>

\* SELECT COUNT(*) FROM categories; sample_data = category_count > 0.
HealthSample(ok) ==
  /\ health.pc = "sample"
  /\ health' = IF ~ok THEN HealthExcept(health, "sample")
               ELSE [health EXCEPT !.sample_data = health.rows > 0,
                                   !.pc = "exit"]
  /\ UNCHANGED <<last, catVars, migVars, sess, db, cfg, ent, sup>>

\* The end of the with block: get_session commits; a commit that raises is
\* rolled back and re-raised, the session is closed either way.
HealthExit(ok) ==
  /\ health.pc = "exit"
  /\ health' = IF ~ok THEN HealthExcept(health, "commit")
               ELSE [health EXCEPT !.pc = "status"]
  /\ UNCHANGED <<last, catVars, migVars, sess, db, cfg, ent, sup>>

\* "Determine overall status", then "return health_info".
HealthStatus ==
  /\ health.pc = "status"
  /\ health' = [health EXCEPT
       !.pc = "done",
       !.status = IF health.connection /\ health.tables_exist
                    THEN "healthy"
                  ELSE IF health.connection THEN "needs_setup"
                  ELSE "unhealthy"]
  /\ UNCHANGED <<last, catVars, migVars, sess, db, cfg, ent, sup>>

\* check_database_health is called again after it returned.
HealthAgain ==
  /\ health.pc = "done"
  /\ health' = [health EXCEPT !.pc = "idle"]
  /\ UNCHANGED <<last, catVars, migVars, sess, db, cfg, ent, sup>>

\* ------------------------------------------------- DatabaseConfig, engine
\* The bounds of a port number in DatabaseConfig.validate.
MinPort == 1
MaxPort == 65535

\* Values of the fields validate looks at; "" is an absent (falsy) string.
Hosts == {"", "db.example"}
Databases == {"", "inventory"}
Usernames == {"", "app"}
Ports == {0, 1, 5432, 65535, 65536}

\* The parts urlparse finds in a database URL; NULL and "" are absent parts.
UrlPorts == {NULL, 5432, 65535}
UrlPaths == {"", "/", "/inventory"}

\* parsed.path.lstrip("/")
LStripSlash(path) ==
  CASE path = "/inventory" -> "inventory"
    [] path = "/" -> ""
    [] OTHER -> path

\* DatabaseConfig.from_url: an absent part is replaced by a default.
from_url(hostname, port, path, username) ==
  [host |-> IF hostname # "" THEN hostname ELSE "localhost",
   port |-> IF port # NULL THEN port ELSE 5432,
   database |-> IF path # "" THEN LStripSlash(path)
                             ELSE "inventory_management",
   username |-> IF username # "" THEN username ELSE "postgres"]

\* DatabaseConfig.validate: the name of the exception it raises, or "none"
\* when it returns True.
validate(c) ==
  IF c.host = "" \/ c.database = "" \/ c.username = "" THEN "ValueError"
  ELSE IF ~(MinPort <= c.port /\ c.port <= MaxPort) THEN "ValueError"
  ELSE "none"

\* config = DatabaseConfig.from_url(url)
FromUrl(hostname, port, path, username) ==
  /\ cfg.pc = "config"
  /\ ~cfg.parsed
  /\ cfg' = [cfg EXCEPT !.config = from_url(hostname, port, path, username),
                        !.parsed = TRUE]
  /\ UNCHANGED <<last, catVars, migVars, sess, db, health, ent, sup>>

\* config.validate(), called by a caller that chooses to.
Validate ==
  /\ cfg.pc = "config"
  /\ last' = [op |-> "validate", raised |-> validate(cfg.config)]
  /\ UNCHANGED <<cfg, catVars, migVars, sess, db, health, ent, sup>>

\* DatabaseManager.engine on a manager without engine: _create_engine hands
\* config.connection_url and the pool settings to create_engine, which
\* parses the URL and connects to nothing; whatever create_engine raises is
\* logged and raised again.
CreateEngine(ok) ==
  /\ cfg.pc = "config"
  /\ cfg' = IF ok THEN [cfg EXCEPT !.pc = "engine", !.engine = TRUE]
                  ELSE [cfg EXCEPT !.pc = "engine", !.error = "Exception"]
  /\ UNCHANGED <<last, catVars, migVars, sess, db, health, ent, sup>>

\* ------------------------------------------------------- init_database
\* The steps of init_database in the order of its statements.
InitSteps == <<"validate", "create_database", "test_connection",
               "run_migrations">>

\* What can fail inside create_database_if_not_exists: creating the admin
\* engine, connecting to the postgres database, the SELECT on pg_database,
\* and CREATE DATABASE (only executed while the database is missing).
CdFaults == {"none", "engine", "connect", "select", "create"}

\* DatabaseManager.create_database_if_not_exists: the whole body is inside
\* the try, any Exception is logged and answered with False; without a
\* fault the database exists afterwards and the answer is True.
create_database_if_not_exists(exists, fault) ==
  IF fault = "none" THEN [ret |-> TRUE, exists |-> TRUE]
  ELSE [ret |-> FALSE, exists |-> exists]

\* A call of init_database before its first statement.
NewInit(c, exists) ==
  [pc |-> "validate", engine |-> FALSE, database_exists |-> exists,
   steps |-> << >>, outcomes |-> << >>, ret |-> "None", raised |-> FALSE,
   config |-> c]

\* A step of init_database has been performed with this outcome.
Performed(c, step, outcome) ==
  [c EXCEPT !.steps = Append(@, step), !.outcomes = Append(@, outcome)]

\* "return False" of init_database, from an if or from its except clause.
ReturnFalse(c) == [c EXCEPT !.pc = "done", !.ret = "False"]

\* The except clause of init_database: "except Exception" takes ValueError
\* and every other Exception a step raises, logs it and returns False.
InitExcept(c, e) ==
  IF e \in {"ValueError", "Exception"} THEN ReturnFalse(c)
  ELSE [c EXCEPT !.pc = "done", !.raised = TRUE]

\* db_manager.config.validate(): a ValueError reaches the except clause of
\* init_database, which logs it and returns False.
InitDbValidate ==
  /\ cfg.pc = "validate"
  /\ LET e == validate(cfg.config)
         c == Performed(cfg, "validate", e = "none")
     IN  cfg' = IF e = "none" THEN [c EXCEPT !.pc = "create_database"]
                ELSE InitExcept(c, e)
  /\ UNCHANGED <<last, catVars, migVars, sess, db, health, ent, sup>>

\* if not db_manager.create_database_if_not_exists(): return False
InitDbCreate(fault) ==
  /\ cfg.pc = "create_database"
  /\ fault = "create" => ~cfg.database_exists
  /\ LET r == create_database_if_not_exists(cfg.database_exists, fault)
         c == [Performed(cfg, "create_database", r.ret)
                 EXCEPT !.database_exists = r.exists]
     IN  cfg' = IF r.ret THEN [c EXCEPT !.pc = "test_connection"]
                ELSE ReturnFalse(c)
  /\ UNCHANGED <<last, catVars, migVars, sess, db, health, ent, sup>>

\* (variant that calls test_connection without reading its answer)
InitDbTest_ignore(fault) ==
  /\ cfg.pc = "test_connection"
  /\ fault = "engine" => ~cfg.engine
  /\ LET r == test_connection(fault)
         c == [Performed(cfg, "test_connection", r.ret)
                 EXCEPT !.engine = @ \/ r.engine]
     IN  cfg' = [c EXCEPT !.pc = "run_migrations"]
  /\ UNCHANGED <<last, catVars, migVars, sess, db, health, ent, sup>>

\* if not db_manager.test_connection(): return False
InitDbTest(fault) ==
  /\ cfg.pc = "test_connection"
  /\ fault = "engine" => ~cfg.engine
  /\ LET r == test_connection(fault)
         c == [Performed(cfg, "test_connection", r.ret)
                 EXCEPT !.engine = @ \/ r.engine]
     IN  cfg' = IF r.raised THEN InitExcept(c, "Exception")
                ELSE IF r.ret THEN [c EXCEPT !.pc = "run_migrations"]
                ELSE ReturnFalse(c)
  /\ UNCHANGED <<last, catVars, migVars, sess, db, health, ent, sup>>

\* db_manager.run_migrations() is entered; its steps are those of the
\* migration runner, taken by run[InitRunner].
InitRunner == 1

InitDbMigrate ==
  /\ cfg.pc = "run_migrations"
  /\ run[InitRunner].pc = "idle"
  /\ cfg' = [cfg EXCEPT !.pc = "migrating"]
  /\ UNCHANGED <<last, catVars, migVars, sess, db, health, ent, sup>>

\* The steps of run_migrations inside init_database.
InitDbMigrating ==
  /\ cfg.pc = "migrating"
  /\ \/ \E ok \in BOOLEAN : MigStart(InitRunner, ok)
     \/ \E ok \in BOOLEAN : MigCreateLedger(InitRunner, ok)
     \/ \E ok \in BOOLEAN : MigReadLedger(InitRunner, ok)
     \/ MigLoop(InitRunner)
     \/ \E ok \in BOOLEAN : MigBegin(InitRunner, ok)
     \/ \E ok \in BOOLEAN : MigExecute(InitRunner, ok)
     \/ \E ok \in BOOLEAN : MigInsert(InitRunner, ok)
     \/ \E ok \in BOOLEAN : MigCommit(InitRunner, ok)

\* if not db_manager.run_migrations(): return False; otherwise the success
\* is logged and init_database returns True.
InitDbReturn ==
  /\ cfg.pc = "migrating"
  /\ run[InitRunner].pc = "done"
  /\ LET ok == run[InitRunner].ret = "True"
         c == Performed(cfg, "run_migrations", ok)
     IN  cfg' = IF ok THEN [c EXCEPT !.pc = "done", !.ret = "True"]
                ELSE ReturnFalse(c)
  /\ UNCHANGED <<last, catVars, migVars, sess, db, health, ent, sup>>

\* ------------------------------------------------- to_dict and from_dict
\* A Python value: its type t, for a str what it spells (f: "text", the
\* canonical form of a UUID, the ISO form of a datetime, or "bad" for a
\* string that is no UUID), and which value of that kind it is (v).
Val(t, f, v) == [t |-> t, f |-> f, v |-> v]

PyNone == Val("none", "", 0)
UuidVal(n) == Val("uuid", "", n)
TimeVal(n) == Val("datetime", "", n)
Text(n) == Val("str", "text", n)
IntVal(n) == Val("int", "", n)
BoolVal(b) == Val("bool", "", IF b THEN 1 ELSE 0)

\* cls.__table__.columns: BaseModel and ActiveRecordMixin columns, then the
\* columns of the class.
Columns(cls) ==
  {"id", "created_at", "updated_at", "is_active", "name"} \cup
  (IF cls = "Category"
     THEN {"description", "parent_id"}
     ELSE {"contact_person", "email", "phone", "address", "city",
           "country", "postal_code", "tax_id", "payment_terms", "notes"})

\* The keys Category.to_dict and Supplier.to_dict add to the columns.
ComputedKeys(cls) ==
  IF cls = "Category"
    THEN {"full_path", "level", "is_root", "is_leaf", "product_count"}
    ELSE {"full_address", "display_name", "has_contact_info",
          "product_count"}

\* The computed fields of an entity that stands alone: no parent object,
\* no children, no products.
Computed(cls, e, k) ==
  CASE k = "full_path" -> e["name"]
    [] k = "level" -> IntVal(0)
    [] k = "is_root" -> BoolVal(e["parent_id"] = PyNone)
    [] k = "is_leaf" -> BoolVal(TRUE)
    [] k = "product_count" -> IntVal(0)
    [] k = "full_address" -> Val("str", "joined", 0)
    [] k = "display_name" ->
         IF e["contact_person"] # PyNone THEN Val("str", "joined", 1)
                                         ELSE e["name"]
    [] k = "has_contact_info" ->
         BoolVal(e["email"] # PyNone \/ e["phone"] # PyNone)

\* The conversion in the column loop of BaseModel.to_dict: str(value) for
\* a UUID, value.isoformat() for a datetime, the value itself otherwise.
Render(value) ==
  IF value.t = "uuid" THEN Val("str", "uuid", value.v)
  ELSE IF value.t = "datetime" THEN Val("str", "iso", value.v)
  ELSE value

\* to_dict(include_relationships=False) of Category and Supplier.
to_dict(cls, e) ==
  [k \in Columns(cls) \cup ComputedKeys(cls) |->
     IF k \in Columns(cls) THEN Render(e[k]) ELSE Computed(cls, e, k)]

\* BaseModel.from_dict: the keys that are no columns are filtered out, a
\* str under "id" goes through uuid.UUID, which raises ValueError for a
\* string that is no UUID, and the class is constructed from what is left;
\* an attribute without key is None.
from_dict(cls, data) ==
  LET keys == DOMAIN data \cap Columns(cls)
      convert == "id" \in keys /\ data["id"].t = "str"
  IN  IF convert /\ data["id"].f # "uuid"
        THEN [raised |-> "ValueError", entity |-> << >>]
        ELSE [raised |-> "none",
              entity |-> [k \in Columns(cls) |->
                 IF k \notin keys THEN PyNone
                 ELSE IF k = "id" /\ convert THEN UuidVal(data["id"].v)
                 ELSE data[k]]]

DropKey(data, k) == [x \in DOMAIN data \ {k} |-> data[x]]

SetKey(data, k, value) ==
  [x \in DOMAIN data \cup {k} |-> IF x = k THEN value ELSE data[x]]

\* The changes a caller makes to a mapping before handing it to from_dict.
Edits == {"drop_name", "bad_id", "bad_parent_id", "unknown_key"}

\* entity.to_dict()
ToDict ==
  /\ ent.pc = "entity"
  /\ ent' = [ent EXCEPT !.pc = "mapping", !.data = to_dict(ent.cls, ent.e)]
  /\ UNCHANGED <<last, catVars, migVars, sess, db, health, cfg, sup>>

\* A caller changes the mapping.
EditMapping(kind) ==
  /\ ent.pc = "mapping"
  /\ kind \notin ent.edits
  /\ kind = "bad_parent_id" => ent.cls = "Category"
  /\ ent' = [ent EXCEPT
       !.edits = @ \cup {kind},
       !.data = CASE kind = "drop_name" -> DropKey(@, "name")
                  [] kind = "bad_id" -> SetKey(@, "id", Val("str", "bad", 0))
                  [] kind = "bad_parent_id" ->
                       SetKey(@, "parent_id", Val("str", "bad", 0))
                  [] kind = "unknown_key" -> SetKey(@, "colour", Text(9))]
  /\ UNCHANGED <<last, catVars, migVars, sess, db, health, cfg, sup>>

\* cls.from_dict(mapping)
FromDict ==
  /\ ent.pc = "mapping"
  /\ ent' = [ent EXCEPT !.pc = "done",
                        !.result = from_dict(ent.cls, ent.data)]
  /\ UNCHANGED <<last, catVars, migVars, sess, db, health, cfg, sup>>

\* ------------------------------------------------ Supplier and products
\* A product as the supplier's figures read it: is_active, unit_cost (in
\* hundredths, NULL when the product has none), reorder_point, and
\* inventory, the quantity_available of each of its inventory records.
ProductKinds ==
  {[unit_cost |-> 10000, reorder_point |-> 10],
   [unit_cost |-> 2000, reorder_point |-> 5],
   [unit_cost |-> NULL, reorder_point |-> 5]}

Quantities == {0 - 1, 0, 5, 50}

NewProduct(kind, active) ==
  [is_active |-> active, unit_cost |-> kind.unit_cost,
   reorder_point |-> kind.reorder_point, inventory |-> << >>]

\* (variant of the inner loop without "if inventory.quantity_available > 0")
RECURSIVE InventoryValue_signed(_, _)
InventoryValue_signed(inventory, unit_cost) ==
  IF inventory = << >> THEN 0
  ELSE Head(inventory) * unit_cost
       + InventoryValue_signed(Tail(inventory), unit_cost)

\* The inner loop of get_total_inventory_value: for each inventory record
\* with quantity_available > 0, Decimal(str(quantity_available)) *
\* unit_cost is added; Decimal products and sums of these sizes are exact.
RECURSIVE InventoryValue(_, _)
InventoryValue(inventory, unit_cost) ==
  IF inventory = << >> THEN 0
  ELSE (IF Head(inventory) > 0 THEN Head(inventory) * unit_cost ELSE 0)
       + InventoryValue(Tail(inventory), unit_cost)

\* Supplier.get_total_inventory_value: total starts at Decimal("0.00");
\* "if product.is_active and product.unit_cost" lets the active products
\* with a unit cost that is neither None nor zero through.
RECURSIVE get_total_inventory_value(_)
get_total_inventory_value(products) ==
  IF products = << >> THEN 0
  ELSE LET product == Head(products)
       IN  (IF Truthy(product.is_active) /\ product.unit_cost # NULL
              THEN InventoryValue(product.inventory, product.unit_cost)
              ELSE 0)
           + get_total_inventory_value(Tail(products))

\* (variant of the inner loop without "break")
RECURSIVE LowEntries_nobreak(_, _, _)
LowEntries_nobreak(inventory, reorder_point, i) ==
  IF inventory = << >> THEN << >>
  ELSE (IF Head(inventory) <= reorder_point THEN <<i>> ELSE << >>)
       \o LowEntries_nobreak(Tail(inventory), reorder_point, i)

\* The inner loop of get_low_stock_products for the product at position i:
\* the first record with quantity_available <= reorder_point appends the
\* product and ends the loop.
RECURSIVE LowEntries(_, _, _)
LowEntries(inventory, reorder_point, i) ==
  IF inventory = << >> THEN << >>
  ELSE IF Head(inventory) <= reorder_point THEN <<i>>
  ELSE LowEntries(Tail(inventory), reorder_point, i)

\* Supplier.get_low_stock_products from the product at position i on; a
\* product is named by its position in self.products.
RECURSIVE LowStockFrom(_, _)
LowStockFrom(products, i) ==
  IF i > Len(products) THEN << >>
  ELSE (IF Truthy(products[i].is_active)
          THEN LowEntries(products[i].inventory, products[i].reorder_point, i)
          ELSE << >>)
       \o LowStockFrom(products, i + 1)

get_low_stock_products(products) == LowStockFrom(products, 1)

\* The number of inventory records of all products together.
RECURSIVE RecordCount(_)
RecordCount(products) ==
  IF products = << >> THEN 0
  ELSE Len(Head(products).inventory) + RecordCount(Tail(products))

\* A product is appended to supplier.products; what an earlier call
\* returned is of no use any more.
AddProduct(kind, active) ==
  /\ Len(sup.products) < MaxProducts
  /\ sup' = [sup EXCEPT !.products = Append(@, NewProduct(kind, active))]
  /\ last' = NoCall
  /\ UNCHANGED <<catVars, migVars, sess, db, health, cfg, ent>>

\* An inventory record is appended to product.inventory.
AddInventory(i, q) ==
  /\ i \in 1..Len(sup.products)
  /\ RecordCount(sup.products) < MaxRecords
  /\ sup' = [sup EXCEPT !.products[i].inventory = Append(@, q)]
  /\ last' = NoCall
  /\ UNCHANGED <<catVars, migVars, sess, db, health, cfg, ent>>

\* supplier.get_total_inventory_value()
GetTotalInventoryValue ==
  /\ last' = [op |-> "get_total_inventory_value", self |-> sup.products,
              ret |-> get_total_inventory_value(sup.products)]
  /\ UNCHANGED <<sup, catVars, migVars, sess, db, health, cfg, ent>>

\* supplier.get_low_stock_products()
GetLowStockProducts ==
  /\ last' = [op |-> "get_low_stock_products", self |-> sup.products,
              ret |-> get_low_stock_products(sup.products)]
  /\ UNCHANGED <<sup, catVars, migVars, sess, db, health, cfg, ent>>

\* ----------------------------------------------------- parts left at rest
IdleOrm ==
  [attached |-> FALSE, orphaned |-> [c \in Cats |-> FALSE], rows |-> {},
   row_parent |-> [c \in Cats |-> NULL], product_rows |-> {}]
IdleHealth == [pc |-> "idle"]
IdleCfg == [pc |-> "idle"]
IdleEnt == [pc |-> "idle"]
IdleSup == [pc |-> "idle"]

PinCat ==
  /\ parent = [c \in Cats |-> NULL]
  /\ parent_id = [c \in Cats |-> NULL]
  /\ children = [c \in Cats |-> << >>]
  /\ persisted = [c \in Cats |-> TRUE]
  /\ is_active = [c \in Cats |-> "True"]
  /\ orm = IdleOrm
  /\ last = NoCall

PinMig ==
  /\ dir = {}
  /\ autobegin = TRUE
  /\ store = {}
  /\ ledger = {}
  /\ run = [r \in RunnerIds |-> IdleRun]

PinSess == sess = IdleSess /\ db = {}
PinHealth == health = IdleHealth
PinCfg == cfg = IdleCfg
PinEnt == ent = IdleEnt
PinSup == sup = IdleSup
PinAux == PinSess /\ PinHealth /\ PinCfg /\ PinEnt /\ PinSup

\* ------------------------------------------------------------ specification
\* A forest of categories just loaded or constructed: every category is a
\* root; the rows that were loaded from the store have their id and their
\* is_active, the objects constructed in memory have neither yet.
InitCat ==
  /\ parent = [c \in Cats |-> NULL]
  /\ parent_id = [c \in Cats |-> NULL]
  /\ children = [c \in Cats |-> << >>]
  /\ persisted \in [Cats -> BOOLEAN]
  /\ is_active = [c \in Cats |-> IF persisted[c] THEN "True" ELSE "None"]
  /\ last = NoCall
  /\ dir = {}
  /\ autobegin = TRUE
  /\ store = {}
  /\ ledger = {}
  /\ run = [r \in RunnerIds |-> IdleRun]
  /\ orm = IdleOrm
  /\ PinAux

NextMove ==
  \/ \E c \in Cats, p \in Cats \cup {NULL} : MoveToParent(c, p)
  \/ \E s \in Cats, x \in Cats : CanBeParentOf(s, x)

SpecMove == InitCat /\ [][NextMove]_vars

\* The same forest, either all rows loaded from the store or all objects
\* newly constructed, under moves, activation changes and the read-only tree
\* operations.
InitTree ==
  /\ InitCat
  /\ \E b \in BOOLEAN : persisted = [c \in Cats |-> b]

NextTree ==
  \/ \E c \in Cats, p \in Cats \cup {NULL} : MoveToParent(c, p)
  \/ \E c \in Cats : Activate(c)
  \/ \E c \in Cats : Deactivate(c)
  \/ \E c \in Cats : FullPath(c)
  \/ \E c \in Cats : Level(c)
  \/ \E c \in Cats : GetAllDescendants(c)

SpecTree == InitTree /\ [][NextTree]_vars

\* One runner calling run_migrations, again and again, on a store whose
\* ledger agrees with what is committed in it.
InitMig ==
  /\ parent = [c \in Cats |-> NULL]
  /\ parent_id = [c \in Cats |-> NULL]
  /\ children = [c \in Cats |-> << >>]
  /\ persisted = [c \in Cats |-> TRUE]
  /\ is_active = [c \in Cats |-> "True"]
  /\ last = NoCall
  /\ dir \in SUBSET AllFiles
  /\ autobegin \in BOOLEAN
  /\ store \in SUBSET AllFiles
  /\ ledger = {Stem(f) : f \in store}
  /\ run = [r \in RunnerIds |-> IdleRun]
  /\ orm = IdleOrm
  /\ PinAux

NextMig ==
  \/ \E ok \in BOOLEAN : MigStart(1, ok)
  \/ \E ok \in BOOLEAN : MigCreateLedger(1, ok)
  \/ \E ok \in BOOLEAN : MigReadLedger(1, ok)
  \/ MigLoop(1)
  \/ \E ok \in BOOLEAN : MigBegin(1, ok)
  \/ \E ok \in BOOLEAN : MigExecute(1, ok)
  \/ \E ok \in BOOLEAN : MigInsert(1, ok)
  \/ \E ok \in BOOLEAN : MigCommit(1, ok)
  \/ MigAgain(1)

SpecMig == InitMig /\ [][NextMig]_vars

\* Two runners calling run_migrations, once each, on the same directory and
\* the same, at first empty, store, their steps interleaved in any way: one
\* may start while the other is anywhere in its run, or after its end.
InitRace ==
  /\ PinCat
  /\ PinAux
  /\ dir \in SUBSET AllFiles
  /\ autobegin \in BOOLEAN
  /\ store = {}
  /\ ledger = {}
  /\ run = [r \in RunnerIds |-> IdleRun]

NextRace ==
  \/ \E r \in RunnerIds, ok \in BOOLEAN : MigStart(r, ok)
  \/ \E r \in RunnerIds, ok \in BOOLEAN : MigCreateLedger(r, ok)
  \/ \E r \in RunnerIds, ok \in BOOLEAN : MigReadLedger(r, ok)
  \/ \E r \in RunnerIds : MigLoop(r)
  \/ \E r \in RunnerIds, ok \in BOOLEAN : MigBegin(r, ok)
  \/ \E r \in RunnerIds, ok \in BOOLEAN : MigExecute(r, ok)
  \/ \E r \in RunnerIds, ok \in BOOLEAN : MigInsert(r, ok)
  \/ \E r \in RunnerIds, ok \in BOOLEAN : MigCommit(r, ok)

SpecRace == InitRace /\ [][NextRace]_vars

\* A caller entering get_session, again and again.
InitSession ==
  /\ PinCat
  /\ PinMig
  /\ PinHealth /\ PinCfg /\ PinEnt /\ PinSup
  /\ sess = IdleSess
  /\ db = {}

NextSession ==
  \/ \E ok \in BOOLEAN : SessEnter(ok)
  \/ \E k \in SessKeys : SessWrite(k)
  \/ \E out \in {"ok", "error", "exit"} : SessBodyEnd(out)
  \/ \E ok \in BOOLEAN : SessCommit(ok)
  \/ \E ok \in BOOLEAN : SessRollback(ok)
  \/ SessClose
  \/ SessAgain

SpecSession == InitSession /\ [][NextSession]_vars

\* A database with any of the tables of schema public, with or without
\* category rows, and a manager with or without its engine, asked for its
\* health and for connection tests.
InitHealth ==
  /\ PinCat
  /\ PinMig
  /\ PinSess /\ PinCfg /\ PinEnt /\ PinSup
  /\ \E t \in SUBSET PublicTables, n \in {0, 1}, e \in BOOLEAN :
       health = [pc |-> "idle", tables |-> t, rows |-> n, engine |-> e,
                 connection |-> FALSE, tables_exist |-> FALSE,
                 sample_data |-> FALSE, status |-> "unknown",
                 error |-> "None", fault |-> "none", raised |-> FALSE]

NextHealth ==
  \/ \E fault \in TcFaults : TestConnection(fault)
  \/ \E fault \in TcFaults : HealthTest(fault)
  \/ \E ok \in BOOLEAN : HealthSession(ok)
  \/ \E ok \in BOOLEAN : HealthCount(ok)
  \/ \E ok \in BOOLEAN : HealthSample(ok)
  \/ \E ok \in BOOLEAN : HealthExit(ok)
  \/ HealthStatus
  \/ HealthAgain

SpecHealth == InitHealth /\ [][NextHealth]_vars

\* A manager without engine whose configuration was constructed from any
\* field values, or is then read from a URL.
InitConfig ==
  /\ PinCat
  /\ PinMig
  /\ PinSess /\ PinHealth /\ PinEnt /\ PinSup
  /\ \E h \in Hosts, p \in Ports, d \in Databases, u \in Usernames :
       cfg = [pc |-> "config", parsed |-> FALSE, engine |-> FALSE,
              error |-> "none",
              config |-> [host |-> h, port |-> p, database |-> d,
                          username |-> u]]

NextConfig ==
  \/ \E h \in Hosts, p \in UrlPorts, d \in UrlPaths, u \in Usernames :
       FromUrl(h, p, d, u)
  \/ Validate
  \/ \E ok \in BOOLEAN : CreateEngine(ok)

SpecConfig == InitConfig /\ [][NextConfig]_vars

\* init_database called once on a fresh manager whose configuration was
\* constructed from any field values, against a server where the database
\* exists or not, with any set of migration files.
InitInitDb ==
  /\ PinCat
  /\ PinSess /\ PinHealth /\ PinEnt /\ PinSup
  /\ dir \in SUBSET AllFiles
  /\ autobegin \in BOOLEAN
  /\ store = {}
  /\ ledger = {}
  /\ run = [r \in RunnerIds |-> IdleRun]
  /\ \E h \in Hosts, p \in Ports, d \in Databases, u \in Usernames,
        exists \in BOOLEAN :
       cfg = NewInit([host |-> h, port |-> p, database |-> d,
                      username |-> u], exists)

NextInitDb ==
  \/ InitDbValidate
  \/ \E fault \in CdFaults : InitDbCreate(fault)
  \/ \E fault \in TcFaults : InitDbTest(fault)
  \/ InitDbMigrate
  \/ InitDbMigrating
  \/ InitDbReturn

SpecInitDb == InitInitDb /\ [][NextInitDb]_vars

\* The Category and Supplier entities the conversions are applied to.
Categories ==
  {[id |-> UuidVal(i), created_at |-> TimeVal(1), updated_at |-> TimeVal(u),
    is_active |-> BoolVal(a), name |-> Text(n), description |-> d,
    parent_id |-> p] :
     i \in {1, 2}, u \in {1, 2}, a \in BOOLEAN, n \in {1, 2},
     d \in {PyNone, Text(3)}, p \in {PyNone, UuidVal(3)}}

Suppliers ==
  {[id |-> UuidVal(i), created_at |-> TimeVal(1), updated_at |-> TimeVal(u),
    is_active |-> BoolVal(a), name |-> Text(n), contact_person |-> c,
    email |-> m, phone |-> Text(5), address |-> Text(6), city |-> Text(7),
    country |-> Text(8), postal_code |-> Text(9), tax_id |-> Text(10),
    payment_terms |-> IntVal(30), notes |-> Text(11)] :
     i \in {1, 2}, u \in {1, 2}, a \in BOOLEAN, n \in {1, 2},
     c \in {PyNone, Text(3)}, m \in {PyNone, Text(4)}}

InitEntity ==
  /\ PinCat
  /\ PinMig
  /\ PinSess /\ PinHealth /\ PinCfg /\ PinSup
  /\ \/ \E e \in Categories :
          ent = [pc |-> "entity", cls |-> "Category", e |-> e,
                 data |-> << >>, edits |-> {},
                 result |-> [raised |-> "none", entity |-> << >>]]
     \/ \E e \in Suppliers :
          ent = [pc |-> "entity", cls |-> "Supplier", e |-> e,
                 data |-> << >>, edits |-> {},
                 result |-> [raised |-> "none", entity |-> << >>]]

NextEntity ==
  \/ ToDict
  \/ \E kind \in Edits : EditMapping(kind)
  \/ FromDict

SpecEntity == InitEntity /\ [][NextEntity]_vars

\* A supplier without products, to which products and inventory records
\* are added and which is asked for its figures.
InitSupplier ==
  /\ PinCat
  /\ PinMig
  /\ PinSess /\ PinHealth /\ PinCfg /\ PinEnt
  /\ sup = [pc |-> "idle", products |-> << >>]

NextSupplier ==
  \/ \E kind \in ProductKinds, active \in {"True", "False"} :
       AddProduct(kind, active)
  \/ \E i \in 1..MaxProducts, q \in Quantities : AddInventory(i, q)
  \/ GetTotalInventoryValue
  \/ GetLowStockProducts

SpecSupplier == InitSupplier /\ [][NextSupplier]_vars

\* Categories loaded into one session, every one a root with a row, some
\* with products; the categories that keep their row are moved, and the
\* session is committed.
InitStore ==
  /\ PinMig
  /\ PinAux
  /\ parent = [c \in Cats |-> NULL]
  /\ parent_id = [c \in Cats |-> NULL]
  /\ children = [c \in Cats |-> << >>]
  /\ persisted = [c \in Cats |-> TRUE]
  /\ is_active = [c \in Cats |-> "True"]
  /\ last = NoCall
  /\ \E withProducts \in SUBSET Cats :
       orm = [attached |-> TRUE, orphaned |-> [c \in Cats |-> FALSE],
              rows |-> Cats, row_parent |-> [c \in Cats |-> NULL],
              product_rows |-> withProducts]

NextStore ==
  \/ \E c \in orm.rows, p \in orm.rows \cup {NULL} : MoveToParent(c, p)
  \/ OrmCommit

SpecStore == InitStore /\ [][NextStore]_vars

\* ------------------------------------------------------- claims: hierarchy
\* Strict ancestors of c along parent links, as a set: the closure of
\* "parent of" taken NumCats times.
RECURSIVE UpClosure(_, _)
UpClosure(S, k) ==
  IF k = 0 THEN S
  ELSE UpClosure(S \cup ({parent[x] : x \in S} \ {NULL}), k - 1)

AncestorsOf(c) == UpClosure({parent[c]} \ {NULL}, NumCats)

\* The same along parent_id keys.
KeyParent(c) ==
  IF parent_id[c] = NULL THEN NULL
  ELSE CHOOSE x \in Cats : Uuid(x) = parent_id[c]

RECURSIVE KeyUpClosure(_, _)
KeyUpClosure(S, k) ==
  IF k = 0 THEN S
  ELSE KeyUpClosure(S \cup ({KeyParent(x) : x \in S} \ {NULL}), k - 1)

KeyAncestorsOf(c) == KeyUpClosure({KeyParent(c)} \ {NULL}, NumCats)

\* C1: after any sequence of move_to_parent calls on a forest, successful or
\* refused, no category is its own ancestor (by parent and by parent_id) and
\* every category has a root among itself and its ancestors.
C1_Acyclic ==
  \A c \in Cats :
    /\ c \notin AncestorsOf(c)
    /\ c \notin KeyAncestorsOf(c)
    /\ \E r \in {c} \cup AncestorsOf(c) : parent[r] = NULL

\* A refused move was made on a forest holding a chain of three categories.
C1_Witness ==
  /\ last.op = "move_to_parent"
  /\ last.ret = FALSE
  /\ \E c \in Cats : Cardinality(AncestorsOf(c)) >= 2

\* C2: S.can_be_parent_of(X) is false when X is S, false when X is an
\* ancestor of S, and true in every other case.
C2_CanBeParentOf ==
  last.op = "can_be_parent_of" =>
    last.ret = ~(last.arg = last.self \/ last.arg \in AncestorsOf(last.self))

\* can_be_parent_of refused the grandparent of self.
C2_Witness ==
  /\ last.op = "can_be_parent_of"
  /\ last.ret = FALSE
  /\ parent[last.self] # NULL
  /\ last.arg = parent[parent[last.self]]

\* C3: C.move_to_parent(P) with P = C or P a descendant of C returns False
\* and leaves parent_id, parent and children of every category as they were.
C3_RefusedMoveIsNoOp ==
  [][\A c \in Cats, p \in Cats :
       (/\ last'.op = "move_to_parent"
        /\ last'.self = c
        /\ last'.arg = p
        /\ (p = c \/ c \in AncestorsOf(p)))
       => /\ last'.ret = FALSE
          /\ UNCHANGED <<parent_id, parent, children>>]_vars

\* A category was refused a move under its own grandchild.
C3_Witness ==
  /\ last.op = "move_to_parent"
  /\ last.ret = FALSE
  /\ last.arg # NULL
  /\ last.arg # last.self
  /\ parent[last.arg] # NULL
  /\ parent[parent[last.arg]] = last.self

\* C4: move_to_parent(None) returns True for every category in every state
\* and leaves it with parent_id and parent None; on a category that already
\* has neither it changes nothing in the forest.
C4_DetachAlwaysSucceeds ==
  [][\A c \in Cats :
       (/\ last'.op = "move_to_parent"
        /\ last'.self = c
        /\ last'.arg = NULL)
       => /\ last'.ret = TRUE
          /\ parent_id'[c] = NULL
          /\ parent'[c] = NULL
          /\ (parent_id[c] = NULL /\ parent[c] = NULL
                => UNCHANGED <<parent_id, parent, children>>)]_vars

\* A category was detached while other categories still have parents.
C4_Witness ==
  /\ last.op = "move_to_parent"
  /\ last.arg = NULL
  /\ last.ret = TRUE
  /\ parent[last.self] = NULL
  /\ children[last.self] # << >>
  /\ \E x \in Cats : parent[x] # NULL /\ parent[x] # last.self

\* C5: for every category, parent_id is None exactly when it has no parent
\* (is_root exactly when level is 0), and otherwise parent_id is the id of
\* the parent, also for categories not yet persisted.
C5_ParentIdMatchesParent ==
  \A c \in Cats :
    /\ is_root(c) <=> (level(c) = 0)
    /\ (parent_id[c] = NULL) <=> (parent[c] = NULL)
    /\ parent[c] # NULL => parent_id[c] = Id(parent[c])

\* ------------------------------------------------------ claims: tree reads
\* The chains of categories from a root down to c along parent links.
Chains == UNION {[1..n -> Cats] : n \in 1..NumCats}

IsChainTo(s, c) ==
  /\ s[Len(s)] = c
  /\ parent[s[1]] = NULL
  /\ \A i \in 1..(Len(s) - 1) : parent[s[i + 1]] = s[i]

\* The names of a chain written left to right with " > " between them.
RECURSIVE Written(_)
Written(s) ==
  IF Len(s) = 1 THEN Name(s[1])
  ELSE Written(SubSeq(s, 1, Len(s) - 1)) \o " > " \o Name(s[Len(s)])

\* C6: for a category at depth d, full_path is the names of the d+1
\* categories from the root down to it joined by " > " and level is d; for a
\* root, full_path is its own name and level is 0.
C6_FullPathAndLevel ==
  /\ last.op = "full_path" =>
       /\ \E s \in Chains : IsChainTo(s, last.self) /\ last.ret = Written(s)
       /\ parent[last.self] = NULL => last.ret = Name(last.self)
  /\ last.op = "level" =>
       /\ \E s \in Chains : IsChainTo(s, last.self) /\ last.ret = Len(s) - 1
       /\ parent[last.self] = NULL => last.ret = 0

\* The scenario of the specification: the path of "Gaming Laptops".
C6_Witness ==
  /\ last.op = "full_path"
  /\ last.ret = "Electronics > Laptops > Gaming Laptops"
  /\ Cardinality(AncestorsOf(last.self)) = 2

\* Position of x in the children collection of its parent.
Pos(x) ==
  CHOOSE i \in 1..Len(children[parent[x]]) : children[parent[x]][i] = x

\* The positions met on the way from c down to its descendant x.
RECURSIVE IdxPath(_, _)
IdxPath(x, c) ==
  IF x = c \/ parent[x] = NULL THEN << >>
  ELSE Append(IdxPath(parent[x], c), Pos(x))

\* s comes before t in depth-first pre-order: s is a proper prefix of t, or
\* s is smaller at the first position where they differ.
RECURSIVE Before(_, _)
Before(s, t) ==
  IF t = << >> THEN FALSE
  ELSE IF s = << >> THEN TRUE
  ELSE IF Head(s) # Head(t) THEN Head(s) < Head(t)
  ELSE Before(Tail(s), Tail(t))

\* The descendants of c that are active with every category between them
\* and c active.
VisibleDescendants(c) ==
  {x \in Cats :
     /\ c \in AncestorsOf(x)
     /\ Truthy(is_active[x])
     /\ \A m \in AncestorsOf(x) : c \in AncestorsOf(m) => Truthy(is_active[m])}

C8_SecondRunAppliesNothing ==
  (run[1].runs >= 2 /\ run[1].prevRet = "True" /\ run[1].pc # "idle") =>
    /\ run[1].executed = << >>
    /\ run[1].pendExec = {}
    /\ run[1].pendIns = {}
    /\ ledger = run[1].ledger0
    /\ (run[1].pc = "done" /\ ~run[1].faulted) => run[1].ret = "True"

\* The second run over two or more files, all of them recorded, returned.
C8_Witness ==
  /\ run[1].runs = 2
  /\ run[1].prevRet = "True"
  /\ run[1].pc = "done"
  /\ run[1].ret = "True"
  /\ Len(run[1].files) >= 2
  /\ \A f \in dir : Stem(f) \in ledger

C10_AppliesMissingInOrder ==
  LET missing == {f \in dir : Stem(f) \notin run[1].ledger0}
      e == run[1].executed
  IN  (run[1].pc = "done" /\ ~run[1].faulted /\ missing # {}) =>
        /\ run[1].ret = "True"
        /\ {e[i] : i \in 1..Len(e)} = missing
        /\ Len(e) = Cardinality(missing)
        /\ \A i, j \in 1..Len(e) : i < j => LexLess(e[i], e[j])
        /\ ledger = run[1].ledger0 \cup {Stem(f) : f \in missing}
        /\ \A f \in dir : Stem(f) \in ledger

\* The steps of run_migrations that belong to one file: lines 162-184.
UnitSteps == {"begin", "execute", "insert", "commit"}

CommittedByUse == {k \in SessKeys : <<sess.uses, k>> \in db}

\* C12: at the end of a get_session block whose session was made: a body
\* that returned and a commit that returned leave the calls commit, close
\* and the body's writes committed, with no error; a body that raised
\* leaves the calls rollback, close, nothing committed, and its own error
\* going on to the caller when rollback returns; a commit that raised
\* leaves the calls commit, rollback, close, nothing committed, and the
\* commit's error going on when rollback returns; close is called exactly
\* once on every path, as the last call, and on these three paths after
\* commit or rollback.
C12_ScopedSession ==
  (sess.pc = "done" /\ sess.opened) =>
    /\ (sess.body = "ok" /\ sess.commit = "ok") =>
          /\ sess.calls = <<"commit", "close">>
          /\ sess.err = "none"
          /\ CommittedByUse = sess.wrote
    /\ sess.body = "error" =>
          /\ sess.calls = <<"rollback", "close">>
          /\ CommittedByUse = {}
          /\ sess.rollback = "ok" => sess.err = "body"
    /\ sess.commit = "raised" =>
          /\ sess.calls = <<"commit", "rollback", "close">>
          /\ CommittedByUse = {}
          /\ sess.rollback = "ok" => sess.err = "commit"
    /\ Cardinality({i \in 1..Len(sess.calls) : sess.calls[i] = "close"}) = 1
    /\ sess.calls[Len(sess.calls)] = "close"
    /\ sess.body # "exit" => Len(sess.calls) >= 2

\* After a use that committed its writes, a second use wrote, its body
\* raised, and the block was left with the session rolled back and closed.
C12_Witness ==
  /\ sess.pc = "done"
  /\ sess.uses = 2
  /\ db # {}
  /\ sess.body = "error"
  /\ sess.wrote # {}
  /\ sess.rollback = "ok"
  /\ sess.calls = <<"rollback", "close">>

\* ------------------------------------------------------ claims: health
\* C13: the status check_database_health returns is one of healthy,
\* needs_setup, unhealthy and error; it is error when an exception occurred
\* during the check; otherwise it is healthy exactly when the connection
\* test succeeded and all five expected tables are in schema public,
\* needs_setup exactly when the test succeeded and a table is missing, and
\* unhealthy exactly when the test failed.
C13_HealthStatus ==
  health.pc = "done" =>
    LET connected == health.fault \notin {"engine", "connect", "select1"}
        complete == ExpectedTables \subseteq health.tables
        excepted == health.fault \in {"factory", "count", "sample", "commit"}
    IN  /\ health.status \in {"healthy", "needs_setup", "unhealthy", "error"}
        /\ excepted => health.status = "error"
        /\ ~excepted =>
             /\ health.status = "healthy" <=> (connected /\ complete)
             /\ health.status = "needs_setup" <=> (connected /\ ~complete)
             /\ health.status = "unhealthy" <=> ~connected
        /\ health.status = "healthy" => (connected /\ complete)

\* A check that found the connection and four of the five tables.
C13_Witness ==
  /\ health.pc = "done"
  /\ health.status = "needs_setup"
  /\ Cardinality(health.tables \cap ExpectedTables) = 4
  /\ "schema_migrations" \in health.tables

\* C14: test_connection and check_database_health never raise: when
\* creating the engine, connecting or a statement fails, test_connection
\* returns False; when any of these or the session's commit fails during
\* the health check, a status record is returned whose status is unhealthy
\* or error.
C14_NeverRaise ==
  /\ last.op = "test_connection" =>
       /\ ~last.raised
       /\ last.fault # "none" => last.ret = FALSE
  /\ health.pc = "done" =>
       /\ ~health.raised
       /\ health.fault # "none" => health.status \in {"unhealthy", "error"}
       /\ health.fault \in {"engine", "connect", "select1"} =>
            health.status = "unhealthy"

\* A connection test failed on creating the engine, and a later health check
\* on a complete database failed in the session's commit.
C14_Witness ==
  /\ last.op = "test_connection"
  /\ last.fault = "engine"
  /\ health.pc = "done"
  /\ health.fault = "commit"
  /\ ExpectedTables \subseteq health.tables

\* ------------------------------------------------ claims: configuration
\* A configuration whose host, database or username is absent or whose
\* port is outside [1, 65535].
InvalidConfig(c) ==
  \/ c.host = ""
  \/ c.database = ""
  \/ c.username = ""
  \/ c.port < 1
  \/ c.port > 65535

\* C15: making the engine from a configuration with an absent host,
\* database or username or a port outside [1, 65535] fails with
\* ConfigurationError and makes no engine; from a configuration without
\* these defects it does not fail with that error.
C15_ConnectValidates ==
  cfg.pc = "engine" =>
    IF InvalidConfig(cfg.config)
      THEN cfg.error = "ConfigurationError" /\ ~cfg.engine
      ELSE cfg.error # "ConfigurationError"

\* -------------------------------------------------- claims: conversions
\* C16: for an entity with every column set, from_dict of its to_dict
\* returns an entity whose every column has the value and the type it had:
\* id and parent_id are the same UUIDs, created_at and updated_at the same
\* datetimes, the other columns are unchanged.
C16_RoundTrip ==
  (/\ ent.pc = "done"
   /\ ent.edits = {}
   /\ \A k \in Columns(ent.cls) : ent.e[k] # PyNone) =>
    /\ ent.result.raised = "none"
    /\ \A k \in Columns(ent.cls) : ent.result.entity[k] = ent.e[k]

\* C17: from_dict builds the entity from the keys that are columns and
\* from nothing else, and raises ValidationError, returning no entity, when
\* the required name is absent or a UUID column holds a string that is no
\* UUID.
C17_FromMapValidates ==
  ent.pc = "done" =>
    LET absent == "name" \notin DOMAIN ent.data
        uncoercible ==
          \E k \in {"id", "parent_id"} \cap Columns(ent.cls) :
            /\ k \in DOMAIN ent.data
            /\ ent.data[k].t = "str"
            /\ ent.data[k].f # "uuid"
    IN  IF absent \/ uncoercible
          THEN ent.result.raised = "ValidationError"
          ELSE /\ ent.result.raised = "none"
               /\ DOMAIN ent.result.entity = Columns(ent.cls)

\* ----------------------------------------------------- claims: supplier
\* The inventory records <<i, j>> that count: record j of product i, where
\* product i is active and has a unit cost and the record's quantity is
\* positive.
Qualifying(products) ==
  {ij \in (1..Len(products)) \X (1..MaxRecords + 1) :
     /\ ij[2] <= Len(products[ij[1]].inventory)
     /\ products[ij[1]].is_active = "True"
     /\ products[ij[1]].unit_cost # NULL
     /\ products[ij[1]].inventory[ij[2]] > 0}

RECURSIVE SumValue(_, _)
SumValue(products, S) ==
  IF S = {} THEN 0
  ELSE LET ij == CHOOSE x \in S : TRUE
       IN  products[ij[1]].unit_cost * products[ij[1]].inventory[ij[2]]
           + SumValue(products, S \ {ij})

\* C18: get_total_inventory_value returns the sum of unit_cost times
\* quantity_available over the inventory records with a positive quantity
\* of the active products that have a unit cost, and nothing else: 0 when
\* no record qualifies.
C18_TotalInventoryValue ==
  last.op = "get_total_inventory_value" =>
    /\ last.ret = SumValue(last.self, Qualifying(last.self))
    /\ Qualifying(last.self) = {} => last.ret = 0

\* The value was asked of a supplier with a qualifying record and a record
\* of negative quantity of a product with a unit cost.
C18_Witness ==
  /\ last.op = "get_total_inventory_value"
  /\ last.ret > 0
  /\ \E i \in 1..Len(last.self) :
       /\ last.self[i].is_active = "True"
       /\ last.self[i].unit_cost # NULL
       /\ \E j \in 1..Len(last.self[i].inventory) :
            last.self[i].inventory[j] < 0

\* The products that are low on stock: active, with a record whose
\* quantity is at most the reorder point.
LowStock(products) ==
  {i \in 1..Len(products) :
     /\ products[i].is_active = "True"
     /\ \E j \in 1..Len(products[i].inventory) :
          products[i].inventory[j] <= products[i].reorder_point}

C20_DetachKeepsCategory ==
  last.op = "commit" =>
    /\ \A c \in last.detached :
         c \in orm.rows /\ orm.row_parent[c] = NULL
    /\ last.subtree \subseteq orm.rows
    /\ last.products \subseteq orm.product_rows

\* ------------------------------------------------ claims: interleaved runs
\* How often the changes of file f, and with them the ledger row of its
\* version, were committed by the runners.
CommitCount(f) ==
  Cardinality({rk \in RunnerIds \X (1..NumFiles * MaxRuns) :
     /\ rk[2] <= Len(run[rk[1]].committed)
     /\ run[rk[1]].committed[rk[2]] = f})

FirstFailure ==
  IF \A k \in 1..Len(cfg.outcomes) : cfg.outcomes[k] THEN 0
  ELSE CHOOSE k \in 1..Len(cfg.outcomes) :
         /\ ~cfg.outcomes[k]
         /\ \A j \in 1..(k - 1) : cfg.outcomes[j]

\* C22: init_database performs validate, create_database_if_not_exists,
\* test_connection, run_migrations in this order; the first step that
\* fails is the last one performed and the call returns False; the call
\* returns True only after all four steps succeeded; no exception leaves
\* the call, and the migration runner is not entered unless the three
\* steps before it succeeded.
C22_InitOrder ==
  /\ Len(cfg.steps) <= Len(InitSteps)
  /\ cfg.steps = SubSeq(InitSteps, 1, Len(cfg.steps))
  /\ Len(cfg.outcomes) = Len(cfg.steps)
  /\ FirstFailure # 0 => /\ FirstFailure = Len(cfg.steps)
                         /\ cfg.pc = "done"
                         /\ cfg.ret = "False"
  /\ ~cfg.raised
  /\ cfg.pc = "done" =>
       /\ cfg.ret \in {"True", "False"}
       /\ cfg.ret = "True" <=>
            (Len(cfg.steps) = Len(InitSteps) /\ FirstFailure = 0)
       /\ cfg.ret = "False" => FirstFailure = Len(cfg.steps)
  /\ run[InitRunner].pc # "idle" =>
       /\ Len(cfg.steps) >= 3
       /\ \A k \in 1..3 : cfg.outcomes[k]

\* init_database has returned False because test_connection answered
\* False on a valid configuration with the database present: three steps
\* were performed and the migration runner was never entered.
C22_Witness ==
  /\ cfg.pc = "done"
  /\ cfg.ret = "False"
  /\ cfg.steps = SubSeq(InitSteps, 1, 3)
  /\ cfg.outcomes = <<TRUE, TRUE, FALSE>>
  /\ cfg.database_exists
  /\ run[InitRunner].pc = "idle"

\* init_database has returned True after all four steps, having applied
\* at least one migration file.
C22_WitnessTrue ==
  /\ cfg.pc = "done"
  /\ cfg.ret = "True"
  /\ cfg.steps = InitSteps
  /\ store # {}

====
